---- MODULE Spec2Model ----
(***************************************************************************)
(* Model of src/src/Voting.ts: the Voting zkApp (state root, agreeVotes,   *)
(* disagreeVotes, title, description; methods init and vote), the          *)
(* off-chain store (the Voters map and the Merkle tree Tree) and the       *)
(* client function vote(name, index, decision) of the script.              *)
(*                                                                         *)
(* Field elements and Poseidon hashes are terms: Field(n) is <<n>> and a   *)
(* Poseidon hash is a term of its inputs, so two hashes are equal exactly  *)
(* when their inputs are (collision resistance).  A                        *)
(* transaction is built by running the method against the chain state of   *)
(* that moment (Mina.transaction), which yields the preconditions          *)
(* (requireEquals) and the updates (set) of its account update; sending    *)
(* it applies the updates when the preconditions hold on the state it      *)
(* lands on.                                                               *)
(***************************************************************************)
EXTENDS Integers, Sequences, FiniteSets, TLC

VARIABLES
    phase,          \* position of the script: "seed", "deploy", "run"
    initialRoot,    \* let initialRoot (line 37, assigned at line 125)
    Voters,         \* the off-chain map name -> Voter (line 103)
    Tree,           \* the off-chain MerkleTree: its set leaves (line 117)
    root,           \* @state root
    agreeVotes,     \* @state agreeVotes
    disagreeVotes,  \* @state disagreeVotes
    title,          \* @state title
    description,    \* @state description
    pending,        \* transactions built and proved, not yet sent
    committed,      \* history: the leaves the on-chain root commits to
    accepted,       \* history: number of vote transactions applied
    calls,          \* history: number of calls of vote
    last            \* history: the last call of vote or send: its arguments,
                    \* its outcome, the contract state before it (pre) and the
                    \* committed leaf at the index of its witness (preLeaf)

vars == <<phase, initialRoot, Voters, Tree, root, agreeVotes, disagreeVotes,
          title, description, pending, committed, accepted, calls, last>>

-----------------------------------------------------------------------------
(* Bounds of the model *)

\* leaf indices handed to vote are 0 .. MaxIndex (the seeded leaves are 0..3)
MaxIndex == 4
\* decisions handed to vote are 0 .. MaxDecision
MaxDecision == 3
\* at most MaxCalls calls of vote are made in one behaviour
MaxCalls == 2
\* a caller other than the script puts the key of one of the test accounts
\* 0 .. MaxKey in its record (0 is the fee payer, who is no voter)
MaxKey == 1

-----------------------------------------------------------------------------
(* Program constants *)

\* MerkleWitness(8), new MerkleTree(8)
Height == 8
NameOrder == <<"Bob", "Alice", "Charlie", "Olivia">>
Names == {NameOrder[i] : i \in 1..Len(NameOrder)}

RECURSIVE Pow2(_)
Pow2(n) == IF n = 0 THEN 1 ELSE 2 * Pow2(n - 1)

-----------------------------------------------------------------------------
(* Field, Poseidon, Voter *)

Field(n) == <<n>>

\* The hash of two equal zero nodes of a Merkle tree (Field(0) at level 0)
\* is the zero node of the next level; that term is written <<"Zeroes",
\* level>>, every other hash is the tagged tuple of its inputs.
IsZeroNode(h) == h = Field(0) \/ Len(h) = 2

ZeroLevel(h) == IF h = Field(0) THEN 0 ELSE h[2]

Poseidon(input) ==
    IF Len(input) = 2 /\ input[1] = input[2] /\ IsZeroNode(input[1])
    THEN <<"Zeroes", ZeroLevel(input[1]) + 1>>
    ELSE <<"Poseidon">> \o input

\* Local.testAccounts[i]: account 0 is the fee payer, 1..4 are the voters
TestAccount(i) == i

PublicKeyToFields(pk) == <<Field(pk), Field(0)>>

NewVoter(pk, decision) == [publicKey |-> pk, decision |-> decision]

VoterToFields(v) == PublicKeyToFields(v.publicKey) \o <<Field(v.decision)>>

Hash(v) == Poseidon(VoterToFields(v))

\* a bug: setDecision returns the record unchanged
SetDecision_Same(v, decision) == v

\* lines 29-34
SetDecision(v, decision) == NewVoter(v.publicKey, decision)

-----------------------------------------------------------------------------
(* MerkleTree and MerkleWitness of height Height.  A tree is the function  *)
(* from the indices of the leaves that were set to their values; every     *)
(* other node is the zero node of its level.                               *)

RECURSIVE Zeroes(_)
Zeroes(level) ==
    IF level = 0 THEN Field(0)
    ELSE LET below == Zeroes(level - 1) IN Poseidon(<<below, below>>)

EmptyTree == [i \in {} |-> Field(0)]

SetLeaf(T, index, leaf) ==
    [i \in DOMAIN T \cup {index} |-> IF i = index THEN leaf ELSE T[i]]

RECURSIVE GetNode(_, _, _)
GetNode(T, level, index) ==
    IF \A i \in DOMAIN T : i \div Pow2(level) # index THEN Zeroes(level)
    ELSE IF level = 0 THEN T[index]
    ELSE Poseidon(<<GetNode(T, level - 1, 2 * index),
                    GetNode(T, level - 1, 2 * index + 1)>>)

GetRoot(T) == GetNode(T, Height - 1, 0)

GetWitness(T, index) ==
    [l \in 1..(Height - 1) |->
        LET i == index \div Pow2(l - 1)
            isLeft == i % 2 = 0
        IN [isLeft |-> isLeft,
            sibling |-> GetNode(T, l - 1, IF isLeft THEN i + 1 ELSE i - 1)]]

RECURSIVE CalculateRootFrom(_, _, _)
CalculateRootFrom(path, hash, l) ==
    IF l > Len(path) THEN hash
    ELSE CalculateRootFrom(path,
             IF path[l].isLeft THEN Poseidon(<<hash, path[l].sibling>>)
                               ELSE Poseidon(<<path[l].sibling, hash>>),
             l + 1)

CalculateRoot(path, leaf) == CalculateRootFrom(path, leaf, 1)

RECURSIVE CalculateIndexFrom(_, _)
CalculateIndexFrom(path, l) ==
    IF l > Len(path) THEN 0
    ELSE (IF path[l].isLeft THEN 0 ELSE Pow2(l - 1)) + CalculateIndexFrom(path, l + 1)

CalculateIndex(path) == CalculateIndexFrom(path, 1)

-----------------------------------------------------------------------------
(* The contract *)

ContractState ==
    [root |-> root, agreeVotes |-> agreeVotes, disagreeVotes |-> disagreeVotes,
     title |-> title, description |-> description]

\* a bug: init reads initialRoot as declared at line 37, Field(0)
InitRoot_Zero(initial) == Field(0)

\* line 55: this.root.set(initialRoot)
InitRoot(initial) == initial

\* lines 53-58: super.init() zeroes every state field, then root and the
\* two counters are set
VotingInit(initial) ==
    [root |-> InitRoot(initial), agreeVotes |-> 0, disagreeVotes |-> 0,
     title |-> Field(0), description |-> Field(0)]

\* a bug: the root is read without a precondition on it
RootPrecondition_None(rootRead) == {}

\* line 64: this.root.requireEquals(root)
RootPrecondition(rootRead) == {rootRead}

\* a bug: the caller's decision field is kept
ZeroedVoter_Unchanged(voter) == voter

\* line 66: voter = voter.setDecision(UInt32.from(0))
ZeroedVoter(voter) == SetDecision(voter, 0)

\* a bug: the upper bound is not asserted
DecisionInRange_NoUpperBound(decision) == decision > 0

\* lines 70-71: decision.assertGreaterThan(0); decision.assertLessThan(3)
DecisionInRange(decision) == decision > 0 /\ decision < 3

\* a bug: the membership of the record is not asserted
MembershipHolds_Skipped(path, voter, rootRead) == TRUE

\* line 72: path.calculateRoot(voter.hash()).assertEquals(root)
MembershipHolds(path, voter, rootRead) ==
    CalculateRoot(path, Hash(voter)) = rootRead

\* line 79: decision === UInt32.from(1).  Both operands are objects, so ===
\* compares references, and UInt32.from(1) is a new object: never the same
\* object as the parameter, whatever its value.
DecisionIsAgree(decision) == FALSE

\* lines 79-87: the preconditions and the update of the tallies.  (add(1)
\* also asserts that the sum fits 32 bits; the tallies stay far below.)
TallyPreconditions(st, decision) ==
    IF DecisionIsAgree(decision)
    THEN [agreeVotes |-> {st.agreeVotes}, disagreeVotes |-> {}]
    ELSE [agreeVotes |-> {}, disagreeVotes |-> {st.disagreeVotes}]

\* a bug: the else branch sets disagreeVotes
TallyUpdates_Disagree(st, decision) ==
    IF DecisionIsAgree(decision)
    THEN [agreeVotes |-> {st.agreeVotes + 1}, disagreeVotes |-> {}]
    ELSE [agreeVotes |-> {}, disagreeVotes |-> {st.disagreeVotes + 1}]

TallyUpdates(st, decision) ==
    IF DecisionIsAgree(decision)
    THEN [agreeVotes |-> {st.agreeVotes + 1}, disagreeVotes |-> {}]
    ELSE [agreeVotes |-> {st.disagreeVotes + 1}, disagreeVotes |-> {}]

\* lines 60-89: the method run against the state st.  ok: every assertion
\* holds; preconditions and updates: the account update it produces, each
\* field a set that is empty (no precondition, no update) or holds the value
VotingVote(st, voter, decision, path) ==
    LET rootRead == st.root
        voter0 == ZeroedVoter(voter)
        newVoter == SetDecision(voter0, decision)
        newRoot == CalculateRoot(path, Hash(newVoter))
        tallyPre == TallyPreconditions(st, decision)
        tallyUpd == TallyUpdates(st, decision)
    IN [ok |-> /\ DecisionInRange(decision)
               /\ MembershipHolds(path, voter0, rootRead),
        newVoter |-> newVoter,
        preconditions |-> [root |-> RootPrecondition(rootRead),
                           agreeVotes |-> tallyPre.agreeVotes,
                           disagreeVotes |-> tallyPre.disagreeVotes],
        updates |-> [root |-> {newRoot},
                     agreeVotes |-> tallyUpd.agreeVotes,
                     disagreeVotes |-> tallyUpd.disagreeVotes]]

\* the ledger's check of an account update's preconditions
PreconditionsHold(pre, st) ==
    /\ \A r \in pre.root : r = st.root
    /\ \A n \in pre.agreeVotes : n = st.agreeVotes
    /\ \A n \in pre.disagreeVotes : n = st.disagreeVotes

\* the value of a state field after an account update
Updated(old, upd) == IF upd = {} THEN old ELSE CHOOSE v \in upd : TRUE

-----------------------------------------------------------------------------
(* The off-chain store *)

\* lines 103-113: every name maps to a Voter with decision 0
InitialVoters ==
    [name \in Names |->
        LET index == (CHOOSE i \in 1..Len(NameOrder) : NameOrder[i] = name) - 1
        IN NewVoter(TestAccount(index + 1), 0)]

\* lines 119-122
SeededTree ==
    SetLeaf(SetLeaf(SetLeaf(SetLeaf(EmptyTree,
        0, Hash(InitialVoters["Bob"])),
        1, Hash(InitialVoters["Alice"])),
        2, Hash(InitialVoters["Charlie"])),
        3, Hash(InitialVoters["Olivia"]))

\* line 164: voter = voter.setDecision(decision)
MirrorVoter(voter, decision) == SetDecision(voter, decision)

\* line 165: Voters = Voters.set('Bob', voter)
MirrorVoters(V, name, voter) == [V EXCEPT !["Bob"] = voter]

\* a bug: the leaf index is fixed, as the name at line 165 is
MirrorTree_Leaf0(T, index, voter) == SetLeaf(T, 0, Hash(voter))

\* line 166: Tree.setLeaf(index, voter.hash())
MirrorTree(T, index, voter) == SetLeaf(T, index, Hash(voter))

-----------------------------------------------------------------------------
(* Inputs *)

Indices == 0..MaxIndex
Decisions == 0..MaxDecision
PublicKeys == {TestAccount(i) : i \in 0..MaxKey}
Direct == "direct"

-----------------------------------------------------------------------------
(* The state machine *)

\* lines 37, 94-117: nothing is deployed, the tree is empty
Init ==
    /\ phase = "seed"
    /\ initialRoot = Field(0)
    /\ Voters = InitialVoters
    /\ Tree = EmptyTree
    /\ root = Field(0)
    /\ agreeVotes = 0
    /\ disagreeVotes = 0
    /\ title = Field(0)
    /\ description = Field(0)
    /\ pending = {}
    /\ committed = EmptyTree
    /\ accepted = 0
    /\ calls = 0
    /\ last = [stage |-> "none", ok |-> FALSE, name |-> Direct, index |-> 0,
               voter |-> NewVoter(TestAccount(0), 0), decision |-> 0,
               path |-> GetWitness(EmptyTree, 0), tx |-> {},
               pre |-> VotingInit(Field(0)), preLeaf |-> Field(0)]

\* lines 119-125: the leaves are set and initialRoot is read from the tree
SeedTree ==
    /\ phase = "seed"
    /\ phase' = "deploy"
    /\ Tree' = SeededTree
    /\ initialRoot' = GetRoot(Tree')
    /\ UNCHANGED <<Voters, root, agreeVotes, disagreeVotes, title, description,
                   pending, committed, accepted, calls, last>>

\* lines 127-141: the deploy transaction runs init()
Deploy ==
    /\ phase = "deploy"
    /\ phase' = "run"
    /\ LET st == VotingInit(initialRoot)
       IN /\ root' = st.root
          /\ agreeVotes' = st.agreeVotes
          /\ disagreeVotes' = st.disagreeVotes
          /\ title' = st.title
          /\ description' = st.description
    /\ committed' = Tree
    /\ UNCHANGED <<initialRoot, Voters, Tree, pending, accepted, calls, last>>

\* lines 157-160: Mina.transaction runs contract.vote(voter, decision, path)
\* against the current chain state.  A failing assertion throws and no
\* transaction exists; otherwise the proved transaction waits to be sent.
BuildVote(name, index, voter, decision, path) ==
    LET r == VotingVote(ContractState, voter, decision, path)
        tx == [id |-> calls + 1, name |-> name, index |-> index,
               voter |-> voter, decision |-> decision, path |-> path,
               newVoter |-> r.newVoter,
               preconditions |-> r.preconditions, updates |-> r.updates,
               builtAt |-> accepted]
    IN /\ phase = "run"
       /\ calls < MaxCalls
       /\ calls' = calls + 1
       /\ pending' = IF r.ok THEN pending \cup {tx} ELSE pending
       /\ last' = [stage |-> "build", ok |-> r.ok, name |-> name, index |-> index,
                   voter |-> voter, decision |-> decision, path |-> path,
                   tx |-> IF r.ok THEN {tx} ELSE {},
                   pre |-> ContractState,
                   preLeaf |-> GetNode(committed, 0, CalculateIndex(path))]
       /\ UNCHANGED <<phase, initialRoot, Voters, Tree, root, agreeVotes,
                      disagreeVotes, title, description, committed, accepted>>

\* lines 152-160: the client's vote(name, index, decision) up to tx.prove();
\* w is Tree.getWitness(index)
ClientVote(name, index, decision, w) ==
    BuildVote(name, index, Voters[name], decision, w)

\* lines 60-89: any other caller of contract.vote: a record of its choice
\* (its decision field unset, or already the decision voted) and the
\* witness w of a leaf of the committed tree
DirectVote(pk, recordDecision, index, decision, w) ==
    BuildVote(Direct, index, NewVoter(pk, recordDecision), decision, w)

\* a bug: the off-chain update is made whether or not the send succeeded
\* (the rejection of send is caught or not awaited)
Send_UpdateAlways(tx) ==
    LET ok == PreconditionsHold(tx.preconditions, ContractState)
        voter == MirrorVoter(tx.voter, tx.decision)
        client == tx.name \in Names
    IN /\ tx \in pending
       /\ pending' = pending \ {tx}
       /\ last' = [stage |-> "send", ok |-> ok, name |-> tx.name, index |-> tx.index,
                   voter |-> tx.voter, decision |-> tx.decision, path |-> tx.path,
                   tx |-> {tx}, pre |-> ContractState,
                   preLeaf |-> GetNode(committed, 0, CalculateIndex(tx.path))]
       /\ IF ok
          THEN /\ root' = Updated(root, tx.updates.root)
               /\ agreeVotes' = Updated(agreeVotes, tx.updates.agreeVotes)
               /\ disagreeVotes' = Updated(disagreeVotes, tx.updates.disagreeVotes)
               /\ accepted' = accepted + 1
               /\ committed' = SetLeaf(committed, CalculateIndex(tx.path),
                                       Hash(tx.newVoter))
          ELSE UNCHANGED <<root, agreeVotes, disagreeVotes, accepted, committed>>
       /\ IF client
          THEN /\ Voters' = MirrorVoters(Voters, tx.name, voter)
               /\ Tree' = MirrorTree(Tree, tx.index, voter)
          ELSE UNCHANGED <<Voters, Tree>>
       /\ UNCHANGED <<phase, initialRoot, title, description, calls>>

\* line 161 and lines 164-167: the transaction is sent.  The ledger applies
\* its updates when its preconditions hold and rejects it otherwise (send
\* throws); after a send that did not throw the client updates Voters and Tree.
Send(tx) ==
    LET ok == PreconditionsHold(tx.preconditions, ContractState)
        voter == MirrorVoter(tx.voter, tx.decision)
        client == tx.name \in Names
    IN /\ tx \in pending
       /\ pending' = pending \ {tx}
       /\ last' = [stage |-> "send", ok |-> ok, name |-> tx.name, index |-> tx.index,
                   voter |-> tx.voter, decision |-> tx.decision, path |-> tx.path,
                   tx |-> {tx}, pre |-> ContractState,
                   preLeaf |-> GetNode(committed, 0, CalculateIndex(tx.path))]
       /\ IF ok
          THEN /\ root' = Updated(root, tx.updates.root)
               /\ agreeVotes' = Updated(agreeVotes, tx.updates.agreeVotes)
               /\ disagreeVotes' = Updated(disagreeVotes, tx.updates.disagreeVotes)
               /\ accepted' = accepted + 1
               /\ committed' = SetLeaf(committed, CalculateIndex(tx.path),
                                       Hash(tx.newVoter))
          ELSE UNCHANGED <<root, agreeVotes, disagreeVotes, accepted, committed>>
       /\ IF ok /\ client
          THEN /\ Voters' = MirrorVoters(Voters, tx.name, voter)
               /\ Tree' = MirrorTree(Tree, tx.index, voter)
          ELSE UNCHANGED <<Voters, Tree>>
       /\ UNCHANGED <<phase, initialRoot, title, description, calls>>

ClientVotes ==
    \E index \in Indices :
        LET w == GetWitness(Tree, index)
        IN \E name \in Names, decision \in Decisions :
               ClientVote(name, index, decision, w)

DirectVotes ==
    \E index \in Indices :
        LET w == GetWitness(committed, index)
        IN \E pk \in PublicKeys, decision \in Decisions :
               \E recordDecision \in {0, decision} :
                   DirectVote(pk, recordDecision, index, decision, w)

Sends == \E tx \in pending : Send(tx)

\* the script: every vote goes through the client's vote function
Next == SeedTree \/ Deploy \/ ClientVotes \/ Sends

Spec == Init /\ [][Next]_vars

\* the contract called by others: records and witnesses of the caller's choice
NextDirect == SeedTree \/ Deploy \/ DirectVotes \/ Sends

SpecDirect == Init /\ [][NextDirect]_vars

-----------------------------------------------------------------------------
(* Properties *)

\* the record of an identity with its decision unset, and its leaf hash
UnsetLeaf(voter) == Hash(NewVoter(voter.publicKey, 0))

\* the last step applied a vote transaction
VoteApplied == last.stage = "send" /\ last.ok

\* the last call or send carried a record and a witness that authenticate
\* the record, decision unset, under the root the contract held
Authentic ==
    /\ last.preLeaf = UnsetLeaf(last.voter)
    /\ CalculateRoot(last.path, last.preLeaf) = last.pre.root

\* C1: a vote with decision 1 or 2 for a voter whose committed leaf has
\* decision 0, with the correct witness, is accepted and adds exactly 1 to
\* the tally of its decision (agreeVotes for 1, disagreeVotes for 2) and
\* leaves the other tally as it was.
C1_VoteCountsForItsDecision ==
    (last.stage \in {"build", "send"} /\ last.decision \in {1, 2} /\ Authentic)
    => /\ last.ok
       /\ last.stage = "send" =>
            /\ agreeVotes = last.pre.agreeVotes + (IF last.decision = 1 THEN 1 ELSE 0)
            /\ disagreeVotes =
                 last.pre.disagreeVotes + (IF last.decision = 2 THEN 1 ELSE 0)

\* C2: the tallies never decrease and each accepted vote adds exactly one
\* to one of them: after n accepted votes agreeVotes + disagreeVotes = n.
C2_TalliesCountAcceptedVotes ==
    /\ agreeVotes >= last.pre.agreeVotes
    /\ disagreeVotes >= last.pre.disagreeVotes
    /\ agreeVotes + disagreeVotes = accepted

\* C3: a call of vote with a decision outside {1, 2} fails whatever the
\* record and the witness, no transaction comes of it, and root, agreeVotes
\* and disagreeVotes are unchanged.
C3_InvalidDecisionRejected ==
    /\ (last.stage = "build" /\ last.decision \notin {1, 2})
       => ~last.ok /\ last.tx = {} /\ ContractState = last.pre
    /\ \A tx \in pending : tx.decision \in {1, 2}
    /\ last.stage = "send" => last.decision \in {1, 2}

C3_Witness ==
    /\ last.stage = "build" /\ last.decision \notin {1, 2}
    /\ Authentic
    /\ ~last.ok

\* C4: a transaction built before another vote was accepted is rejected
\* when it is sent, whichever of the two is sent first, and root and the
\* tallies stay as the accepted vote left them.
C4_StaleVoteRejected ==
    last.stage = "send" =>
        \A tx \in last.tx :
            /\ last.ok => tx.builtAt = accepted - 1
            /\ tx.builtAt < accepted - (IF last.ok THEN 1 ELSE 0)
               => ~last.ok /\ ContractState = last.pre

C4_Witness ==
    /\ last.stage = "send" /\ ~last.ok
    /\ accepted = 1
    /\ \E tx \in last.tx : tx.builtAt = 0 /\ tx.preconditions.root = {initialRoot}

\* the last call was a vote for an identity whose committed leaf already
\* holds the same decision, with the current witness of that leaf
Revote ==
    /\ last.stage = "build" /\ last.decision \in {1, 2}
    /\ last.preLeaf = Hash(NewVoter(last.voter.publicKey, last.decision))
    /\ last.path = GetWitness(committed, last.index)
    /\ CalculateRoot(last.path, last.preLeaf) = last.pre.root

C6_TreeRootIsCommittedRoot ==
    phase = "run" => GetRoot(Tree) = root

C6_Witness ==
    /\ accepted = 2
    /\ root # initialRoot
    /\ GetRoot(Tree) = root

\* C7: a vote is applied only if the supplied record, its decision forced to
\* 0, hashes to the leaf of the committed set at the index of the witness,
\* and the witness authenticates that leaf under the root the contract held
\* (the committed set being the leaves that root is computed from).
C7_OnlyUnvotedMembersVote ==
    /\ phase = "run" => GetRoot(committed) = root
    /\ VoteApplied => Authentic

C7_Witness == VoteApplied /\ Authentic /\ last.voter.decision # 0

\* C8: with the four voters seeded at leaves 0..3 and the contract deployed
\* with that tree's root, the client's vote('Bob', 0, 1) as first call is
\* accepted and leaves agreeVotes = 1, disagreeVotes = 0, a root other than
\* the initial root and equal to the root of the tree with leaf 0 replaced
\* by the hash of Bob's record with decision 1.
FirstVoteOfBob ==
    /\ calls = 1
    /\ last.name = "Bob" /\ last.index = 0 /\ last.decision = 1

C8_FirstVoteOfBob ==
    FirstVoteOfBob =>
        /\ last.ok
        /\ last.stage = "send" =>
            /\ agreeVotes = 1
            /\ disagreeVotes = 0
            /\ root # initialRoot
            /\ root = GetRoot(SetLeaf(SeededTree, 0, Hash(NewVoter(TestAccount(1), 1))))
            /\ root = GetRoot(Tree)

C8_Witness == FirstVoteOfBob /\ last.stage = "send"

\* C9: the decision field of the record handed to vote is ignored: the same
\* call with any other value in that field has the same outcome and yields
\* the same preconditions and updates (hence the same root and tallies).
C9_RecordDecisionIgnored ==
    last.stage = "build" =>
        \A d \in Decisions :
            LET r == VotingVote(last.pre, NewVoter(last.voter.publicKey, d),
                                last.decision, last.path)
            IN /\ r.ok = last.ok
               /\ \A tx \in last.tx :
                    r.updates = tx.updates /\ r.preconditions = tx.preconditions

C9_Witness == last.stage = "build" /\ last.ok /\ last.voter.decision # 0

\* C10: after the deployment and before any vote, root is the initial
\* commitment, the root of the tree of the seeded decision-0 leaves, and
\* agreeVotes = 0 and disagreeVotes = 0.
C10_InitState ==
    (phase = "run" /\ calls = 0) =>
        /\ root = initialRoot
        /\ root = GetRoot(SeededTree)
        /\ agreeVotes = 0
        /\ disagreeVotes = 0

C10_Witness == phase = "run" /\ calls = 0 /\ root # Field(0)

\* C11: when a vote is applied, the new root is the root of the tree the
\* old root committed to with the one leaf at the index of the witness
\* replaced by the hash of the voter's identity with the decision voted, every
\* other leaf as it was; and the new root differs from the old one.
C11_NewRootReplacesOneLeaf ==
    [][accepted' # accepted =>
         /\ GetRoot(committed) = root
         /\ root' = GetRoot(SetLeaf(committed, CalculateIndex(last'.path),
                        Hash(NewVoter(last'.voter.publicKey, last'.decision))))
         /\ root' # root]_vars

C11_Witness ==
    /\ VoteApplied
    /\ accepted = 2
    /\ root # last.pre.root

\* the test accounts whose keys appear in records: the fee payer's and the voters'
AllKeys == {TestAccount(i) : i \in 0..Len(NameOrder)}

\* every record of the off-chain store and every leaf of the committed set
\* holds a decision in {0, 1, 2}
StoredDecisionsValid ==
    /\ \A n \in Names : Voters[n].decision \in {0, 1, 2}
    /\ \A i \in DOMAIN committed :
         \E pk \in AllKeys, d \in {0, 1, 2} : committed[i] = Hash(NewVoter(pk, d))

\* the name the script seeded at a leaf index (lines 104, 119-122)
NameAt(index) == NameOrder[index + 1]

\* C12: every record of the off-chain store and every leaf of the committed
\* set has its decision in {0, 1, 2}, and a vote that is applied changes the
\* decision of exactly one record, the one at the index of the witness, and
\* no other record.
C12_VoteChangesOneRecord ==
    [][/\ StoredDecisionsValid'
       /\ (accepted' # accepted /\ last'.name \in Names) =>
            \A n \in Names :
                Voters'[n] = IF n = NameAt(last'.index)
                             THEN SetDecision(Voters[n], last'.decision)
                             ELSE Voters[n]]_vars

\* C13: a vote that is applied changes root and exactly one of the two
\* tallies and nothing else; title and description are unchanged by every
\* vote, and a vote that is rejected leaves all five state fields unchanged.
C13_VoteFrame ==
    last.stage \in {"build", "send"} =>
        /\ title = last.pre.title
        /\ description = last.pre.description
        /\ IF VoteApplied
           THEN /\ root # last.pre.root
                /\ (agreeVotes # last.pre.agreeVotes)
                   # (disagreeVotes # last.pre.disagreeVotes)
           ELSE ContractState = last.pre

\* the part of C13 that does not depend on which tally is written
C13_FrameWithoutTallyCount ==
    last.stage \in {"build", "send"} =>
        /\ title = last.pre.title
        /\ description = last.pre.description
        /\ IF VoteApplied
           THEN root # last.pre.root
           ELSE ContractState = last.pre

\* C14: the client's vote updates the off-chain map and tree only after the
\* transaction was accepted: a call whose transaction is rejected (invalid
\* decision, stale or wrong witness, a send the ledger refuses) leaves Voters
\* and Tree unchanged.
C14_RejectedVoteLeavesStore ==
    [][(last'.stage \in {"build", "send"} /\ ~last'.ok)
         => (Voters' = Voters /\ Tree' = Tree)]_vars

\* a send of the client was refused after another vote had been applied
C14_Witness ==
    /\ last.stage = "send" /\ ~last.ok
    /\ last.name \in Names
    /\ accepted = 1
    /\ Tree # SeededTree

\* C15: after a successful vote(name, index, decision) of the client the
\* entry of Voters for that name holds the voter's identity with the
\* decision voted, and the entries of all other names are unchanged.
C15_StoreEntryOfNameUpdated ==
    [][(accepted' # accepted /\ last'.name \in Names) =>
         \A n \in Names :
             Voters'[n] = IF n = last'.name
                          THEN NewVoter(last'.voter.publicKey, last'.decision)
                          ELSE Voters[n]]_vars

\* the last call was the client's vote for a seeded voter under its own
\* name and leaf index, with decision 1 or 2, while the voter's committed
\* leaf is unvoted and the witness is that of the current tree and root
FirstVoteOfAVoter ==
    /\ last.stage = "build"
    /\ last.name \in Names
    /\ last.index < Len(NameOrder) /\ last.name = NameAt(last.index)
    /\ last.decision \in {1, 2}
    /\ last.preLeaf = Hash(InitialVoters[last.name])
    /\ last.path = GetWitness(Tree, last.index)
    /\ GetRoot(Tree) = last.pre.root

\* C16: in whatever order the four seeded voters vote through the client,
\* the first vote of each (own name, own leaf index, decision 1 or 2, witness
\* of the current off-chain tree) is accepted.
C16_FirstVotesAccepted == FirstVoteOfAVoter => last.ok

\* the number of committed leaves that hold decision d
LeavesWithDecision(d) ==
    Cardinality({i \in DOMAIN committed :
                    \E pk \in AllKeys : committed[i] = Hash(NewVoter(pk, d))})

\* C17: starting from a committed set whose leaves all have decision 0,
\* agreeVotes is the number of committed leaves with decision 1 and
\* disagreeVotes the number of committed leaves with decision 2.
C17_TalliesCountLeaves ==
    phase = "run" =>
        /\ agreeVotes = LeavesWithDecision(1)
        /\ disagreeVotes = LeavesWithDecision(2)

====
